---- MODULE Spec2Model ----
(***************************************************************************)
(* Model of the VTB segmentation service:                                  *)
(*   services/segmentation/main.py       (endpoint layer, mask codec)      *)
(*   services/segmentation/predictor.py  (MedSAM3Predictor life cycle)     *)
(*                                                                         *)
(* Numbers.  Request coordinates are floats in the code; here a request    *)
(* coordinate is an integer number of tenths (30 is 3.0, -1 is -0.1).      *)
(* An ellipse center is kept in twentieths, so that a box centroid         *)
(* (x1 + x2) / 2 and the slice center W / 2 are exact.  Confidences are    *)
(* hundredths (85 is 0.85).                                                *)
(***************************************************************************)
EXTENDS Integers, Sequences, FiniteSets, TLC

VARIABLES
    phase,           \* "boot" | "serving" | "crashed" | "stopped"
    env,             \* what the process finds installed and configured
    load_fault,      \* what goes wrong inside load_model in this run
    load_ret,        \* "not_called" | "True" | "False": load_model's result
    predictor,       \* main.predictor: None or a MedSAM3Predictor
    req,             \* the request the last handler served
    resp,            \* the response the last handler produced
    infer_failures,  \* segment requests in which predictor.segment_slice raised
    rng,             \* np.random's global generator, shared by all callers
    synth,           \* synthesizer: the last call and an earlier one, with results
    loader,          \* load_model: the object it is called on and the last call
    px,              \* synthesizer: one pixel, its noise and the two decisions
    mask,            \* codec: the mask handed to mask_to_rle
    rle,             \* codec: what mask_to_rle returned
    pc               \* codec: "input" | "encoded"

svc_vars == <<phase, env, load_fault, load_ret, predictor, req, resp, infer_failures>>
codec_vars == <<mask, rle, pc>>
synth_vars == <<synth>>
load_vars == <<loader>>
pixel_vars == <<px>>
vars == <<phase, env, load_fault, load_ret, predictor, req, resp, infer_failures,
          rng, synth, loader, px, mask, rle, pc>>

(***************************************************************************)
(* Bounds of the model.                                                    *)
(***************************************************************************)
MaxH == 3
MaxW == 3
MaxPoints == 1
MaxBoxes == 1
MaxFailures == 2

(***************************************************************************)
(* Mask codec: mask_to_rle.                                                *)
(***************************************************************************)
\* A mask is a bool ndarray: its shape and its rows.
Masks ==
    UNION { [shape : {<<h, w>>}, data : [1..h -> [1..w -> BOOLEAN]]] :
            <<h, w>> \in (0..MaxH) \X (0..MaxW) }

\* astype(np.uint8) of a bool.
astype_uint8(b) == IF b THEN 1 ELSE 0

flatten_fortran(m) ==
    LET H == m.shape[1]
        W == m.shape[2]
    IN  [k \in 1..(H * W) |-> astype_uint8(m.data[((k - 1) % H) + 1][((k - 1) \div H) + 1])]

\* mask.flatten().astype(np.uint8): row-major (C order).
flatten(m) ==
    LET H == m.shape[1]
        W == m.shape[2]
    IN  [k \in 1..(H * W) |-> astype_uint8(m.data[((k - 1) \div W) + 1][((k - 1) % W) + 1])]

\* np.diff on a uint8 array: neighbour differences, wrapping modulo 256.
np_diff(flat) ==
    [i \in 1..(Len(flat) - 1) |-> (flat[i + 1] - flat[i]) % 256]

\* np.where(changes != 0)[0]: the 0-based positions, ascending.
np_where_nonzero_rising(changes) ==
    SelectSeq([i \in 1..Len(changes) |-> i - 1], LAMBDA j : changes[j + 1] = 1)

np_where_nonzero(changes) ==
    SelectSeq([i \in 1..Len(changes) |-> i - 1], LAMBDA j : changes[j + 1] # 0)

\* change_indices = np.where(changes != 0)[0] + 1
change_indices_every(flat) ==
    [k \in 1..(Len(flat) - 1) |-> k]

change_indices(flat) ==
    LET w == np_where_nonzero(np_diff(flat))
    IN  [k \in 1..Len(w) |-> w[k] + 1]

\* ends = np.concatenate([change_indices, [len(flat)]])
run_ends_short(ci, n) == ci \o <<n - 1>>

run_ends(ci, n) == ci \o <<n>>

Min(a, b) == IF a <= b THEN a ELSE b

\* The loop over zip(starts, ends); flat[start] is 0-based in the code.
mask_to_rle(m) ==
    LET flat == flatten(m)
    IN  IF Len(flat) = 0
        THEN <<>>
        ELSE LET ci     == change_indices(flat)
                 starts == <<0>> \o ci
                 ends   == run_ends(ci, Len(flat))
             IN  [k \in 1..Min(Len(starts), Len(ends)) |->
                     <<flat[starts[k] + 1], ends[k] - starts[k]>>]

(***************************************************************************)
(* Predictor life cycle: MedSAM3Predictor.__init__ and load_model.         *)
(***************************************************************************)
\* main.predictor = None
None == [kind |-> "None"]

\* What can go wrong inside load_model, by the statement that raises (or, for
\* build_none, returns None; for checkpoint_removed, by the file being gone
\* when load_model looks for it; for key_mismatch, by the checkpoint's keys
\* not being the model's, which raises nothing).
LoadFaults ==
    {"none", "checkpoint_removed", "torch_load", "sam3_import", "build_sam3",
     "build_none", "load_state_dict", "to_device", "key_mismatch"}

\* model.load_state_dict(state_dict, strict=False): the numbers of keys of
\* the model missing from the checkpoint and of keys of the checkpoint the
\* model does not have.  With strict=False neither makes the call fail.
load_state_dict(fault) ==
    IF fault = "key_mismatch"
    THEN [missing |-> 2, unexpected |-> 1]
    ELSE [missing |-> 0, unexpected |-> 0]

\* The class of the exception each failing statement raises.
ExceptionOf(fault) ==
    CASE fault = "torch_load"      -> "UnpicklingError"
      [] fault = "sam3_import"     -> "ImportError"
      [] fault = "build_sam3"      -> "RuntimeError"
      [] fault = "load_state_dict" -> "RuntimeError"
      [] fault = "to_device"       -> "RuntimeError"
      [] OTHER                     -> "none"

\* Python's class tree, as far as the handlers of this code tell classes apart.
IsImportError(exc) == exc = "ImportError"

IsException(exc) ==
    exc \in {"ImportError", "UnpicklingError", "RuntimeError", "ValueError",
             "HTTPException"}

\* What a call of a predictor method leaves behind: the object, the value
\* returned and the exception that escaped ("none" when none did).
Returned(self, value) == [self |-> self, ret |-> value, raised |-> "none"]

Raised(self, exc) == [self |-> self, ret |-> "none", raised |-> exc]

load_model_except_reraising(self, exc) == Raised(self, exc)

\* load_model's "except Exception as e: ... return False".
load_model_except(self, exc) ==
    IF IsException(exc) THEN Returned(self, FALSE) ELSE Raised(self, exc)

\* self.model from load_state_dict on: the key lists are locals that are
\* printed when not empty and kept nowhere; then to(device), eval(),
\* model_loaded = True.
load_model_finish(built, fault) ==
    IF fault = "load_state_dict"
    THEN load_model_except(built, ExceptionOf(fault))
    ELSE LET keys == load_state_dict(fault)
             printed == (IF keys.missing > 0 THEN <<"Missing keys">> ELSE <<>>)
                        \o (IF keys.unexpected > 0 THEN <<"Unexpected keys">> ELSE <<>>)
         IN  IF fault = "to_device"
             THEN load_model_except(built, ExceptionOf(fault))
             ELSE Returned([built EXCEPT !.model_loaded = TRUE], TRUE)

\* The statements of load_model from "if not HAS_TORCH" on.
load_model_body(self, has_torch, path_exists, fault) ==
    IF ~has_torch
    THEN Returned(self, FALSE)
    ELSE IF ~path_exists
    THEN Returned(self, FALSE)
    ELSE IF fault = "torch_load"
    THEN load_model_except(self, ExceptionOf(fault))
    ELSE IF fault = "sam3_import"
    THEN IF IsImportError(ExceptionOf(fault))
         THEN Returned(self, FALSE)
         ELSE load_model_except(self, ExceptionOf(fault))
    ELSE IF fault = "build_sam3"
    THEN IF IsImportError(ExceptionOf(fault))
         THEN Returned(self, FALSE)
         ELSE load_model_except(self, ExceptionOf(fault))
    ELSE LET built == [self EXCEPT !.model =
                          IF fault = "build_none" THEN 0 ELSE self.model + 1]
         IN  IF built.model # 0
             THEN load_model_finish(built, fault)
             ELSE Returned(built, FALSE)

\* MedSAM3Predictor.load_model(checkpoint_path).  A model object is a number,
\* 0 for None; build_sam3_image_model returns a new one.  self.loads counts
\* the calls of load_model on the object.
load_model(self, has_torch, path_exists, fault) ==
    load_model_body([self EXCEPT !.loads = self.loads + 1], has_torch, path_exists, fault)

\* MedSAM3Predictor.__init__(checkpoint_path).  The device is the one the
\* auto-detection finds on a host without accelerator.
predictor_init(has_torch, checkpoint_path, path_exists, fault) ==
    LET fresh == [kind |-> "MedSAM3Predictor", device |-> "cpu",
                  model |-> 0, model_loaded |-> FALSE, loads |-> 0]
    IN  IF ~has_torch
        THEN [self |-> fresh, ret |-> "none", raised |-> "none", load |-> "not_called"]
        ELSE IF checkpoint_path # "None" /\ checkpoint_path # ""
        THEN LET r == load_model(fresh, has_torch, path_exists, fault)
             IN  [self |-> r.self, ret |-> "none", raised |-> r.raised,
                  load |-> IF r.raised # "none" THEN "raised"
                           ELSE IF r.ret THEN "True" ELSE "False"]
        ELSE [self |-> fresh, ret |-> "none", raised |-> "none", load |-> "not_called"]

(***************************************************************************)
(* Startup and shutdown: lifespan.                                         *)
(***************************************************************************)
\* os.getenv("CHECKPOINT_PATH") and the file system: the variable is unset
\* (None), set to "", set to a path with no file, or set to a file's path.
CheckpointSettings == {"unset", "empty", "missing", "exists"}

getenv_checkpoint_path(e) ==
    CASE e.checkpoint = "unset"   -> "None"
      [] e.checkpoint = "empty"   -> ""
      [] e.checkpoint = "missing" -> "/no/such.ckpt"
      [] e.checkpoint = "exists"  -> "/weights/model.ckpt"

\* Truth value of an Optional[str].
str_truthy(s) == s # "None" /\ s # ""

os_path_exists(e) == e.checkpoint = "exists"

\* The condition of lifespan's if.
lifespan_wants_predictor_unchecked(e) ==
    e.has_predictor /\ str_truthy(getenv_checkpoint_path(e))

lifespan_wants_predictor(e) ==
    e.has_predictor /\ str_truthy(getenv_checkpoint_path(e)) /\ os_path_exists(e)

\* HAS_TORCH is a flag of predictor.py: where that module could not be
\* imported there is no such flag, and has_torch is written FALSE.
Envs ==
    { e \in [has_predictor : BOOLEAN, has_torch : BOOLEAN, has_cv2 : BOOLEAN,
             checkpoint : CheckpointSettings] :
        e.has_torch => e.has_predictor }

NoReq == [op |-> "none"]
NoResp == [op |-> "none"]

SvcInit ==
    /\ phase = "boot"
    /\ env \in Envs
    /\ load_fault = "none"
    /\ load_ret = "not_called"
    /\ predictor = None
    /\ req = NoReq
    /\ resp = NoResp
    /\ infer_failures = 0

\* lifespan up to its yield.  The fault is an input of the run; it is drawn
\* only where load_model gets as far as its first statement that can fail.
Startup ==
    /\ phase = "boot"
    /\ \E fault \in LoadFaults :
          /\ (fault # "none") =>
                 (lifespan_wants_predictor(env) /\ env.has_torch)
          /\ IF lifespan_wants_predictor(env)
             THEN LET r == predictor_init(env.has_torch, getenv_checkpoint_path(env),
                                           os_path_exists(env) /\ fault # "checkpoint_removed",
                                           fault)
                  IN  /\ predictor' = IF r.raised = "none" THEN r.self ELSE None
                      /\ load_ret' = r.load
                      /\ phase' = IF r.raised = "none" THEN "serving" ELSE "crashed"
             ELSE /\ predictor' = None
                  /\ load_ret' = "not_called"
                  /\ phase' = "serving"
          /\ load_fault' = fault
    /\ UNCHANGED <<env, req, resp, infer_failures, rng>>
    /\ UNCHANGED <<codec_vars, synth_vars, load_vars, pixel_vars>>

\* lifespan after its yield.
Shutdown ==
    /\ phase = "serving"
    /\ phase' = "stopped"
    /\ predictor' = None
    /\ UNCHANGED <<env, load_fault, load_ret, req, resp, infer_failures, rng>>
    /\ UNCHANGED <<codec_vars, synth_vars, load_vars, pixel_vars>>

(***************************************************************************)
(* Requests.                                                               *)
(***************************************************************************)
SeqUpTo(S, n) == UNION { [1..k -> S] : k \in 0..n }

\* PointPrompt: x, y in tenths; label 1 is foreground, 0 background.
PointPrompts ==
    { [x |-> 30, y |-> 20, label |-> 1],
      [x |-> -10, y |-> 0, label |-> 0] }

\* BoxPrompt: corners in tenths.  The centroids are (3.0, 2.05) and
\* (-2.0, 1.05).
BoxPrompts ==
    { [x1 |-> -50, y1 |-> 10, x2 |-> 110, y2 |-> 31],
      [x1 |-> -40, y1 |-> 0, x2 |-> 0, y2 |-> 21] }

\* slice_shape with slice_data: whether the string is valid base64 and how
\* many bytes it decodes to.  A float32 takes 4 bytes.
Slices ==
    { [slice_shape |-> <<7, 9>>, slice_data |-> [b64_ok |-> TRUE, nbytes |-> 252]],
      [slice_shape |-> <<7, 9>>, slice_data |-> [b64_ok |-> TRUE, nbytes |-> 256]],
      [slice_shape |-> <<7, 9>>, slice_data |-> [b64_ok |-> FALSE, nbytes |-> 0]],
      [slice_shape |-> <<12>>, slice_data |-> [b64_ok |-> TRUE, nbytes |-> 48]] }

\* SegmentationRequest.  An absent list (None) and an empty one are both
\* written <<>>: the code only ever takes their truth value.
SegmentationRequests ==
    { [op |-> "segment", slice_shape |-> s.slice_shape, slice_data |-> s.slice_data,
       points |-> ps, boxes |-> bs] :
      s \in Slices, ps \in SeqUpTo(PointPrompts, MaxPoints),
      bs \in SeqUpTo(BoxPrompts, MaxBoxes) }

\* Truth value of an Optional[List].
list_truthy(l) == Len(l) > 0

(***************************************************************************)
(* decode_slice.                                                           *)
(***************************************************************************)
RECURSIVE Product(_)
Product(shape) == IF shape = <<>> THEN 1 ELSE Head(shape) * Product(Tail(shape))

\* base64.b64decode, np.frombuffer(dtype=float32), reshape(shape): each may
\* raise, and decode_slice turns whatever is raised into HTTPException(400).
decode_slice(data, shape) ==
    IF ~data.b64_ok
    THEN [raised |-> "HTTPException", status_code |-> 400]
    ELSE IF data.nbytes % 4 # 0
    THEN [raised |-> "HTTPException", status_code |-> 400]
    ELSE IF data.nbytes \div 4 # Product(shape)
    THEN [raised |-> "HTTPException", status_code |-> 400]
    ELSE [raised |-> "none", shape |-> shape]

(***************************************************************************)
(* The demo synthesizers: the center and the seed of the noise.            *)
(***************************************************************************)
\* int(): truncation towards zero; d > 0.
TruncDiv(n, d) == IF n >= 0 THEN n \div d ELSE -((-n) \div d)

\* cx * 100 + cy * 10 for a center in twentieths, then int().
seed_of(c) == TruncDiv(10 * c.cx + c.cy, 2)

\* s % (2**31), for the numbers of the model (all below 2**31 in size).
mod_2_31(s) == IF s >= 0 THEN s ELSE (2147483647 + s) + 1

\* np.random.seed accepts 0 .. 2**32 - 1.
seed_accepted(s) == s >= 0 /\ (s \div 65536) < 65536

\* np.random's global generator.  Its state is a function of the seed it was
\* last given and of how many numbers were drawn since; a seed of -1 stands
\* for the entropy the generator starts from when the process does.
FreshGenerator == [seed |-> -1, drawn |-> 0]

np_random_seed_noop(g, s) == g

\* np.random.seed(s)
np_random_seed(g, s) == [seed |-> s, drawn |-> 0]

\* np.random.random((H, W)): the next H * W numbers of the generator, named
\* by the seed and the place in its sequence they come from.
np_random_random(g, H, W) ==
    [values |-> [seed |-> g.seed, offset |-> g.drawn, count |-> H * W],
     state  |-> [g EXCEPT !.drawn = g.drawn + H * W]]

\* The center of the ellipse, in twentieths.
slice_center(H, W) == [cx |-> 10 * W, cy |-> 10 * H]

\* main.generate_demo_mask, lines 179-194.
demo_center(H, W, points, boxes) ==
    IF list_truthy(points) /\ Len(points) > 0
    THEN LET fg_points == SelectSeq(points, LAMBDA p : p.label = 1)
         IN  IF list_truthy(fg_points)
             THEN [cx |-> 2 * fg_points[1].x, cy |-> 2 * fg_points[1].y]
             ELSE slice_center(H, W)
    ELSE IF list_truthy(boxes) /\ Len(boxes) > 0
    THEN [cx |-> boxes[1].x1 + boxes[1].x2, cy |-> boxes[1].y1 + boxes[1].y2]
    ELSE slice_center(H, W)

generate_demo_mask_unseeded(shape, points, boxes, g) ==
    IF Len(shape) # 2
    THEN [raised |-> "ValueError", rng |-> g]
    ELSE LET c == demo_center(shape[1], shape[2], points, boxes)
             seed == seed_of(c)
         IN  IF ~seed_accepted(seed)
             THEN [raised |-> "ValueError", rng |-> g]
             ELSE LET n == np_random_random(g, shape[1], shape[2])
                  IN  [raised |-> "none", shape |-> shape, center |-> c, seed |-> seed,
                       noise |-> n.values, synthesizer |-> "main", rng |-> n.state]

\* main.generate_demo_mask, called with the global generator in state g.
\* "H, W = shape" needs exactly two numbers; the seed is handed to
\* np.random.seed as it is.  The mask is named by what determines it: the
\* shape, the center and the noise drawn.
generate_demo_mask(shape, points, boxes, g) ==
    IF Len(shape) # 2
    THEN [raised |-> "ValueError", rng |-> g]
    ELSE LET c == demo_center(shape[1], shape[2], points, boxes)
             seed == seed_of(c)
         IN  IF ~seed_accepted(seed)
             THEN [raised |-> "ValueError", rng |-> g]
             ELSE LET n == np_random_random(np_random_seed(g, seed), shape[1], shape[2])
                  IN  [raised |-> "none", shape |-> shape, center |-> c, seed |-> seed,
                       noise |-> n.values, synthesizer |-> "main", rng |-> n.state]

\* The prompt dict segment_slice builds (lines 276-281); a key that is not
\* set is written as the empty list, which the predictor treats alike.
build_prompt(request) ==
    [points |-> [i \in 1..Len(request.points) |->
                    <<request.points[i].x, request.points[i].y>>],
     labels |-> [i \in 1..Len(request.points) |-> request.points[i].label],
     boxes  |-> [i \in 1..Len(request.boxes) |->
                    <<request.boxes[i].x1, request.boxes[i].y1,
                      request.boxes[i].x2, request.boxes[i].y2>>]]

\* MedSAM3Predictor._generate_demo_mask, lines 180-196.
predictor_demo_center(H, W, prompt) ==
    IF list_truthy(prompt.points)
    THEN LET idx == SelectSeq([i \in 1..Len(prompt.points) |-> i],
                              LAMBDA i : prompt.labels[i] = 1)
         IN  IF list_truthy(idx)
             THEN [cx |-> 2 * prompt.points[idx[1]][1], cy |-> 2 * prompt.points[idx[1]][2]]
             ELSE slice_center(H, W)
    ELSE IF list_truthy(prompt.boxes)
    THEN [cx |-> prompt.boxes[1][1] + prompt.boxes[1][3],
          cy |-> prompt.boxes[1][2] + prompt.boxes[1][4]]
    ELSE slice_center(H, W)

\* MedSAM3Predictor._generate_demo_mask, called with the global generator in
\* state g.
predictor_generate_demo_mask(shape, prompt, g) ==
    IF Len(shape) # 2
    THEN [raised |-> "ValueError", rng |-> g]
    ELSE LET c == predictor_demo_center(shape[1], shape[2], prompt)
             seed == mod_2_31(seed_of(c))
         IN  IF ~seed_accepted(seed)
             THEN [raised |-> "ValueError", rng |-> g]
             ELSE LET n == np_random_random(np_random_seed(g, seed), shape[1], shape[2])
                  IN  [raised |-> "none", shape |-> shape, center |-> c, seed |-> seed,
                       noise |-> n.values, synthesizer |-> "predictor", rng |-> n.state]

\* slice_data.shape[:2]
first_two(shape) == IF Len(shape) > 2 THEN SubSeq(shape, 1, 2) ELSE shape

\* MedSAM3Predictor.segment_slice: both branches end in the demo mask; the
\* object is left as it was.
predictor_segment_slice_demoting(self, slice_shape, prompt, g) ==
    LET m == predictor_generate_demo_mask(first_two(slice_shape), prompt, g)
    IN  IF m.raised # "none"
        THEN Raised([self EXCEPT !.model_loaded = FALSE], m.raised)
        ELSE Returned(self, m)

predictor_segment_slice(self, slice_shape, prompt, g) ==
    LET m == predictor_generate_demo_mask(first_two(slice_shape), prompt, g)
    IN  IF ~self.model_loaded \/ self.model = 0
        THEN IF m.raised # "none" THEN Raised(self, m.raised) ELSE Returned(self, m)
        ELSE IF m.raised # "none" THEN Raised(self, m.raised) ELSE Returned(self, m)

(***************************************************************************)
(* The endpoint layer.                                                     *)
(***************************************************************************)
ModelConfidence == 85
DemoConfidence == 75

\* What a handler answers.  path, trace and failed are not sent: path is the
\* branch of segment_slice that ran, trace the calls it made, in order, and
\* failed the call that raised ("" when none did).
Response(op, status, detail, path, trace, failed, body) ==
    [op |-> op, status |-> status, detail |-> detail, path |-> path,
     trace |-> trace, failed |-> failed, body |-> body]

Last(seq) == IF Len(seq) = 0 THEN "" ELSE seq[Len(seq)]

NoBody == [none |-> TRUE]

\* raise HTTPException(status_code, detail)
HTTPError(status, detail, path, trace) ==
    Response("segment", status, detail, path, trace, Last(trace), NoBody)

\* An exception no handler catches: the framework answers 500.
unhandled(exc, path, trace) ==
    Response("segment", 500, "Internal Server Error", path, trace, Last(trace), NoBody)

\* find_contours: cv2's external contours, or [] when cv2 cannot be imported.
find_contours(m, has_cv2) ==
    IF has_cv2 THEN [list |-> TRUE, traced |-> TRUE]
    ELSE [list |-> TRUE, traced |-> FALSE]

\* Lines 294-305: the envelope around a mask.
envelope(m, confidence, path, trace, has_cv2) ==
    Response("segment", 200, "", path, trace \o <<"mask_to_rle", "find_contours">>, "",
             [mask |-> [shape |-> m.shape, center |-> m.center, noise |-> m.noise,
                        synthesizer |-> m.synthesizer],
              mask_shape |-> m.shape, confidence |-> confidence,
              contours |-> find_contours(m, has_cv2)])

\* Line 265: "not request.points and not request.boxes".
no_prompt_never(request) == ~list_truthy(request.points) /\ list_truthy(request.boxes)

no_prompt(request) == ~list_truthy(request.points) /\ ~list_truthy(request.boxes)

takes_model_path_object(p) == p # None

\* Line 270: the model path is taken when a predictor exists and is loaded.
takes_model_path(p) == p # None /\ p.model_loaded

\* Lines 287-288: "except Exception as e: raise HTTPException(500, ...)".
segment_except(exc, trace) ==
    IF IsException(exc)
    THEN HTTPError(500, "Segmentation failed", "model", trace)
    ELSE unhandled(exc, "model", trace)

model_path_dropping(p, request, has_cv2, g) ==
    LET d == decode_slice(request.slice_data, request.slice_shape)
    IN  IF d.raised # "none"
        THEN [predictor |-> None, rng |-> g,
              resp |-> segment_except(d.raised, <<"decode_slice">>)]
        ELSE LET r == predictor_segment_slice(p, d.shape, build_prompt(request), g)
                 trace == <<"decode_slice", "predictor.segment_slice">>
             IN  IF r.raised # "none"
                 THEN [predictor |-> None, rng |-> g,
                       resp |-> segment_except(r.raised, trace)]
                 ELSE [predictor |-> r.self, rng |-> r.ret.rng,
                       resp |-> envelope(r.ret, ModelConfidence, "model", trace, has_cv2)]

\* Lines 271-288: the model path.
model_path(p, request, has_cv2, g) ==
    LET d == decode_slice(request.slice_data, request.slice_shape)
    IN  IF d.raised # "none"
        THEN [predictor |-> p, rng |-> g,
              resp |-> segment_except(d.raised, <<"decode_slice">>)]
        ELSE LET r == predictor_segment_slice(p, d.shape, build_prompt(request), g)
                 trace == <<"decode_slice", "predictor.segment_slice">>
             IN  IF r.raised # "none"
                 THEN [predictor |-> r.self, rng |-> g,
                       resp |-> segment_except(r.raised, trace)]
                 ELSE [predictor |-> r.self, rng |-> r.ret.rng,
                       resp |-> envelope(r.ret, ModelConfidence, "model", trace, has_cv2)]

demo_path_decoding(p, request, has_cv2, g) ==
    LET d == decode_slice(request.slice_data, request.slice_shape)
        m == generate_demo_mask(request.slice_shape, request.points, request.boxes, g)
        trace == <<"generate_demo_mask">>
    IN  IF d.raised # "none"
        THEN [predictor |-> p, rng |-> g,
              resp |-> HTTPError(400, "Invalid slice data", "demo", <<"decode_slice">>)]
        ELSE IF m.raised # "none"
        THEN [predictor |-> p, rng |-> m.rng,
              resp |-> unhandled(m.raised, "demo", trace)]
        ELSE [predictor |-> p, rng |-> m.rng,
              resp |-> envelope(m, DemoConfidence, "demo", trace, has_cv2)]

demo_path_retrying_load(p, request, has_cv2, g) ==
    LET m == generate_demo_mask(request.slice_shape, request.points, request.boxes, g)
        trace == <<"generate_demo_mask">>
        q == IF p # None
             THEN load_model(p, TRUE, TRUE, "torch_load").self
             ELSE p
    IN  IF m.raised # "none"
        THEN [predictor |-> q, rng |-> m.rng,
              resp |-> unhandled(m.raised, "demo", trace)]
        ELSE [predictor |-> q, rng |-> m.rng,
              resp |-> envelope(m, DemoConfidence, "demo", trace, has_cv2)]

demo_path_overconfident(p, request, has_cv2, g) ==
    LET m == generate_demo_mask(request.slice_shape, request.points, request.boxes, g)
        trace == <<"generate_demo_mask">>
    IN  IF m.raised # "none"
        THEN [predictor |-> p, rng |-> m.rng,
              resp |-> unhandled(m.raised, "demo", trace)]
        ELSE [predictor |-> p, rng |-> m.rng,
              resp |-> envelope(m, ModelConfidence, "demo", trace, has_cv2)]

\* Lines 289-292: the demo path.
demo_path(p, request, has_cv2, g) ==
    LET m == generate_demo_mask(request.slice_shape, request.points, request.boxes, g)
        trace == <<"generate_demo_mask">>
    IN  IF m.raised # "none"
        THEN [predictor |-> p, rng |-> m.rng,
              resp |-> unhandled(m.raised, "demo", trace)]
        ELSE [predictor |-> p, rng |-> m.rng,
              resp |-> envelope(m, DemoConfidence, "demo", trace, has_cv2)]

\* POST /segment
segment_slice(p, request, has_cv2, g) ==
    IF no_prompt(request)
    THEN [predictor |-> p, rng |-> g,
          resp |-> HTTPError(400, "Must provide points or boxes", "none", <<>>)]
    ELSE IF takes_model_path(p)
    THEN model_path(p, request, has_cv2, g)
    ELSE demo_path(p, request, has_cv2, g)

\* GET / and GET /health.  A predictor object is true whatever its state.
health_check(p) ==
    Response("health", 200, "", "none", <<>>, "",
             [status |-> "healthy",
              model_loaded |-> (p # None /\ p.model_loaded),
              mode |-> IF p # None THEN "production" ELSE "demo"])

get_model_info_model_only(self, e) ==
    LET info == [loaded |-> self.model_loaded, device |-> self.device,
                 image_size |-> 1008, has_torch |-> e.has_torch, has_cv2 |-> e.has_cv2]
    IN  IF self.model # 0
        THEN [loaded |-> info.loaded, device |-> info.device, image_size |-> info.image_size,
              has_torch |-> info.has_torch, has_cv2 |-> info.has_cv2,
              total_params |-> "sum of numel", trainable_params |-> "sum of numel, requires_grad"]
        ELSE info

\* MedSAM3Predictor.get_model_info
get_model_info(self, e) ==
    LET info == [loaded |-> self.model_loaded, device |-> self.device,
                 image_size |-> 1008, has_torch |-> e.has_torch, has_cv2 |-> e.has_cv2]
    IN  IF self.model # 0 /\ self.model_loaded
        THEN [loaded |-> info.loaded, device |-> info.device, image_size |-> info.image_size,
              has_torch |-> info.has_torch, has_cv2 |-> info.has_cv2,
              total_params |-> "sum of numel", trainable_params |-> "sum of numel, requires_grad"]
        ELSE info

\* GET /model-info
model_info(p, e) ==
    Response("model-info", 200, "", "none", <<>>, "",
             IF p # None
             THEN get_model_info(p, e)
             ELSE [loaded |-> FALSE, mode |-> "demo",
                   description |-> "Running in demo mode - generating synthetic masks"])

\* The bodies POST /propagate accepts (PropagationRequest): a direction and
\* the initial points, here none or one.
PropagationRequests ==
    [op : {"propagate"}, direction : {"both", "backward"},
     initial_points : {<<>>, <<[x |-> 30, y |-> 20, label |-> 1]>>}]

propagate_segmentation_needs_points(request) ==
    IF Len(request.initial_points) = 0
    THEN Response("propagate", 500, "Internal Server Error", "none", <<>>, "propagate",
                  NoBody)
    ELSE Response("propagate", 200, "", "none", <<>>, "",
                  [status |-> "not_implemented", message |-> "", hint |-> ""])

\* POST /propagate
propagate_segmentation(request) ==
    Response("propagate", 200, "", "none", <<>>, "",
             [status |-> "not_implemented",
              message |-> "Volume propagation requires access to the full volume. Use the /segment endpoint for individual slices.",
              hint |-> "For 3D propagation, the frontend should iterate through slices using the previous mask centroid as the next prompt."])

(***************************************************************************)
(* The request handlers as actions.                                        *)
(***************************************************************************)
HealthCheck ==
    /\ phase = "serving"
    /\ req' = [op |-> "health"]
    /\ resp' = health_check(predictor)
    /\ UNCHANGED <<phase, env, load_fault, load_ret, predictor, infer_failures, rng>>
    /\ UNCHANGED <<codec_vars, synth_vars, load_vars, pixel_vars>>

SegmentSlice ==
    /\ phase = "serving"
    /\ \E request \in SegmentationRequests :
          LET r == segment_slice(predictor, request, env.has_cv2, rng)
          IN  /\ req' = request
              /\ resp' = r.resp
              /\ predictor' = r.predictor
              /\ rng' = r.rng
              /\ infer_failures' =
                     IF r.resp.failed = "predictor.segment_slice"
                     THEN Min(infer_failures + 1, MaxFailures)
                     ELSE infer_failures
    /\ UNCHANGED <<phase, env, load_fault, load_ret>>
    /\ UNCHANGED <<codec_vars, synth_vars, load_vars, pixel_vars>>

PropagateSegmentation ==
    /\ phase = "serving"
    /\ \E request \in PropagationRequests :
          /\ req' = request
          /\ resp' = propagate_segmentation(request)
    /\ UNCHANGED <<phase, env, load_fault, load_ret, predictor, infer_failures, rng>>
    /\ UNCHANGED <<codec_vars, synth_vars, load_vars, pixel_vars>>

ModelInfo ==
    /\ phase = "serving"
    /\ req' = [op |-> "model-info"]
    /\ resp' = model_info(predictor, env)
    /\ UNCHANGED <<phase, env, load_fault, load_ret, predictor, infer_failures, rng>>
    /\ UNCHANGED <<codec_vars, synth_vars, load_vars, pixel_vars>>

CodecIdle ==
    /\ mask = [shape |-> <<0, 0>>, data |-> <<>>]
    /\ rle = <<>>
    /\ pc = "encoded"

\* No synthesizer call made or remembered.
NoCall == [made |-> FALSE]

SynthIdle == synth = [last |-> NoCall, earlier |-> NoCall, between |-> FALSE]

\* load_model not called on its own, no pixel looked at.
LoadIdle == loader = [called |-> FALSE]

PixelIdle == px = [stage |-> "idle"]

Init == SvcInit /\ rng = FreshGenerator /\ CodecIdle /\ SynthIdle /\ LoadIdle /\ PixelIdle

Next ==
    \/ Startup
    \/ HealthCheck
    \/ SegmentSlice
    \/ PropagateSegmentation
    \/ ModelInfo
    \/ Shutdown

Spec == Init /\ [][Next]_vars

(***************************************************************************)
(* The codec on its own: every mask up to MaxH x MaxW goes through         *)
(* mask_to_rle.                                                            *)
(***************************************************************************)
SvcIdle ==
    /\ phase = "stopped"
    /\ env = [has_predictor |-> FALSE, has_torch |-> FALSE, has_cv2 |-> FALSE,
              checkpoint |-> "unset"]
    /\ load_fault = "none"
    /\ load_ret = "not_called"
    /\ predictor = None
    /\ req = NoReq
    /\ resp = NoResp
    /\ infer_failures = 0

InitCodec ==
    /\ SvcIdle
    /\ rng = FreshGenerator
    /\ SynthIdle
    /\ LoadIdle
    /\ PixelIdle
    /\ mask \in Masks
    /\ rle = <<>>
    /\ pc = "input"

Encode ==
    /\ pc = "input"
    /\ rle' = mask_to_rle(mask)
    /\ pc' = "encoded"
    /\ UNCHANGED mask
    /\ UNCHANGED <<svc_vars, rng, synth_vars, load_vars, pixel_vars>>

NextCodec == Encode

SpecCodec == InitCodec /\ [][NextCodec]_vars

(***************************************************************************)
(* The two mask synthesizers on their own, called in any order on the one  *)
(* global generator.  synth.last is the latest call; Pin keeps a call as   *)
(* synth.earlier, and synth.between records that a call seeding the        *)
(* generator differently was made since.                                   *)
(***************************************************************************)
DemoShapes == {<<7, 9>>}

SynthArgs ==
    [synthesizer : {"main", "predictor"},
     shape       : DemoShapes,
     points      : SeqUpTo(PointPrompts, MaxPoints),
     boxes       : SeqUpTo(BoxPrompts, MaxBoxes)]

\* One call of a synthesizer: what it returns or raises, and the generator
\* it leaves behind.
synthesize(a, g) ==
    LET r == IF a.synthesizer = "main"
             THEN generate_demo_mask(a.shape, a.points, a.boxes, g)
             ELSE predictor_generate_demo_mask(a.shape,
                      build_prompt([points |-> a.points, boxes |-> a.boxes]), g)
    IN  [ret |-> IF r.raised # "none"
                 THEN [raised |-> r.raised]
                 ELSE [raised |-> "none", shape |-> r.shape, center |-> r.center,
                       noise |-> r.noise],
         seeded |-> r.raised = "none",
         seed |-> IF r.raised = "none" THEN r.seed ELSE 0,
         rng |-> r.rng]

InitDemo ==
    /\ SvcIdle
    /\ rng = FreshGenerator
    /\ SynthIdle
    /\ CodecIdle
    /\ LoadIdle
    /\ PixelIdle

Synthesize ==
    /\ \E a \in SynthArgs :
          LET c == synthesize(a, rng)
              call == [made |-> TRUE, args |-> a, ret |-> c.ret,
                       seeded |-> c.seeded, seed |-> c.seed]
          IN  /\ rng' = c.rng
              /\ synth' = [last    |-> call,
                           earlier |-> synth.earlier,
                           between |-> \/ synth.between
                                       \/ /\ synth.earlier.made
                                          /\ synth.earlier.seeded
                                          /\ c.seeded
                                          /\ c.seed # synth.earlier.seed]
    /\ UNCHANGED <<svc_vars, codec_vars, load_vars, pixel_vars>>

Pin ==
    /\ synth.last.made
    /\ synth.earlier # synth.last
    /\ synth' = [last |-> synth.last, earlier |-> synth.last, between |-> FALSE]
    /\ UNCHANGED <<svc_vars, rng, codec_vars, load_vars, pixel_vars>>

NextDemo == Synthesize \/ Pin

SpecDemo == InitDemo /\ [][NextDemo]_vars

(***************************************************************************)
(* The demo synthesizers pixel by pixel.  A center is in twentieths and a  *)
(* pixel is a pair of integers, so the distance field                      *)
(*     dist = ((x - cx) / rx) ** 2 + ((y - cy) / ry) ** 2                  *)
(* is the fraction n / d with d = 400 * rx^2 * ry^2, or inf or nan where a *)
(* radius is 0 (numpy divides by zero without raising).  The number drawn  *)
(* for a pixel is u hundredths, 0 <= u < 100.                              *)
(***************************************************************************)
radii_vanishing(H, W) == [rx |-> Min(W, H) \div 600, ry |-> Min(W, H) \div 700]

\* rx = min(W, H) // 6 and ry = min(W, H) // 7, main.py lines 197-198.
radii(H, W) == [rx |-> Min(W, H) \div 6, ry |-> Min(W, H) \div 7]

predictor_radii_wide(H, W) == [rx |-> Min(H, W) \div 3, ry |-> Min(H, W) \div 3]

\* predictor.py lines 199-200.
predictor_radii(H, W) == [rx |-> Min(H, W) \div 6, ry |-> Min(H, W) \div 7]

\* (x_grid - cx) / rx for one x: a float, inf or nan.
axis_kind(num, r) ==
    IF r # 0 THEN "finite" ELSE IF num = 0 THEN "nan" ELSE "inf"

\* dist at pixel (x, y) for center c and radii r.
ellipse_dist(c, r, x, y) ==
    LET dx == 20 * x - c.cx
        dy == 20 * y - c.cy
        ax == axis_kind(dx, r.rx)
        ay == axis_kind(dy, r.ry)
    IN  IF ax = "nan" \/ ay = "nan" THEN [kind |-> "nan", n |-> 0, d |-> 0]
        ELSE IF ax = "inf" \/ ay = "inf" THEN [kind |-> "inf", n |-> 0, d |-> 0]
        ELSE [kind |-> "finite",
              n |-> dx * dx * r.ry * r.ry + dy * dy * r.rx * r.rx,
              d |-> 400 * r.rx * r.rx * r.ry * r.ry]

\* Comparisons of dist with t hundredths; every comparison with nan is false.
dist_le(q, t) == q.kind = "finite" /\ 100 * q.n <= t * q.d

dist_lt(q, t) == q.kind = "finite" /\ 100 * q.n < t * q.d

dist_gt(q, t) == q.kind = "inf" \/ (q.kind = "finite" /\ 100 * q.n > t * q.d)

dist_ge(q, t) == q.kind = "inf" \/ (q.kind = "finite" /\ 100 * q.n >= t * q.d)

\* (dist + noise) <= 1.1 where noise = u / 100 * scale / 100.
noisy_le(q, u, scale) ==
    q.kind = "finite" /\ 10000 * q.n + scale * u * q.d <= 11000 * q.d

base_mask_tight(q) == dist_le(q, 20)

\* dist <= 1.0
base_mask(q) == dist_le(q, 100)

\* main.py lines 204-210: noise * 0.3, band (0.7, 1.3).
main_pixel(q, u) ==
    LET boundary == dist_gt(q, 70) /\ dist_lt(q, 130)
    IN  IF boundary THEN noisy_le(q, u, 30) ELSE base_mask(q)

\* predictor.py lines 206-213: noise * 0.25, band (0.75, 1.25).
predictor_pixel(q, u) ==
    LET boundary == dist_gt(q, 75) /\ dist_lt(q, 125)
    IN  IF boundary THEN noisy_le(q, u, 25) ELSE base_mask(q)

\* One pixel of main.generate_demo_mask(shape, points, boxes).
main_at(shape, points, boxes, x, y, u) ==
    LET c == demo_center(shape[1], shape[2], points, boxes)
        r == radii(shape[1], shape[2])
        q == ellipse_dist(c, r, x, y)
    IN  [accepted |-> seed_accepted(seed_of(c)), center |-> c, radii |-> r,
         dist |-> q, in_mask |-> main_pixel(q, u)]

\* One pixel of MedSAM3Predictor._generate_demo_mask(shape, prompt).
predictor_at(shape, prompt, x, y, u) ==
    LET c == predictor_demo_center(shape[1], shape[2], prompt)
        r == predictor_radii(shape[1], shape[2])
        q == ellipse_dist(c, r, x, y)
    IN  [accepted |-> seed_accepted(mod_2_31(seed_of(c))), center |-> c, radii |-> r,
         dist |-> q, in_mask |-> predictor_pixel(q, u)]

\* The shapes, pixels and draws looked at: a slice whose radii are 1 and one
\* too small for a radius.
PixelShapes == {<<7, 9>>, <<5, 6>>}

Draws == {0, 10, 20, 30, 40, 50, 60, 70, 80, 90, 99}

InitPixel ==
    /\ SvcIdle
    /\ rng = FreshGenerator
    /\ SynthIdle
    /\ CodecIdle
    /\ LoadIdle
    /\ \E shape \in PixelShapes, points \in SeqUpTo(PointPrompts, MaxPoints),
          boxes \in SeqUpTo(BoxPrompts, MaxBoxes), u \in Draws :
          \E y \in 0..(shape[1] - 1), x \in 0..(shape[2] - 1) :
              px = [stage |-> "input", shape |-> shape, points |-> points,
                    boxes |-> boxes, x |-> x, y |-> y, u |-> u]

Decide ==
    /\ px.stage = "input"
    /\ px' = [stage |-> "decided", shape |-> px.shape, points |-> px.points,
              boxes |-> px.boxes, x |-> px.x, y |-> px.y, u |-> px.u,
              main |-> main_at(px.shape, px.points, px.boxes, px.x, px.y, px.u),
              predictor |-> predictor_at(px.shape,
                                build_prompt([points |-> px.points, boxes |-> px.boxes]),
                                px.x, px.y, px.u)]
    /\ UNCHANGED <<svc_vars, rng, codec_vars, synth_vars, load_vars>>

NextPixel == Decide

SpecPixel == InitPixel /\ [][NextPixel]_vars

(***************************************************************************)
(* The service answering one kind of request: a 100 x 100 slice with one   *)
(* foreground point at (50, 50) and no box, its slice_data a buffer of the *)
(* right size or not decodable at all.                                     *)
(***************************************************************************)
ScenarioRequests ==
    { [op |-> "segment", slice_shape |-> <<100, 100>>, slice_data |-> data,
       points |-> <<[x |-> 500, y |-> 500, label |-> 1]>>, boxes |-> <<>>] :
      data \in { [b64_ok |-> TRUE, nbytes |-> 40000], [b64_ok |-> FALSE, nbytes |-> 0] } }

SegmentScenario ==
    /\ phase = "serving"
    /\ \E request \in ScenarioRequests :
          LET r == segment_slice(predictor, request, env.has_cv2, rng)
          IN  /\ req' = request
              /\ resp' = r.resp
              /\ predictor' = r.predictor
              /\ rng' = r.rng
              /\ infer_failures' =
                     IF r.resp.failed = "predictor.segment_slice"
                     THEN Min(infer_failures + 1, MaxFailures)
                     ELSE infer_failures
    /\ UNCHANGED <<phase, env, load_fault, load_ret>>
    /\ UNCHANGED <<codec_vars, synth_vars, load_vars, pixel_vars>>

NextScenario == Startup \/ SegmentScenario \/ Shutdown

SpecScenario == Init /\ [][NextScenario]_vars

(***************************************************************************)
(* load_model on its own: a predictor object made without a checkpoint,    *)
(* then load_model called on it up to MaxLoads times, each call with its   *)
(* own checkpoint and its own trouble.  loader.before is the object as the *)
(* last call found it; loader.weights_in is the model object the last call *)
(* that returned True loaded its weights into (0: no such call yet).       *)
(***************************************************************************)
MaxLoads == 3

InitLoad ==
    /\ SvcIdle
    /\ rng = FreshGenerator
    /\ SynthIdle
    /\ CodecIdle
    /\ PixelIdle
    /\ \E has_torch \in BOOLEAN :
          loader = [called |-> FALSE, has_torch |-> has_torch,
                    self |-> predictor_init(has_torch, "None", FALSE, "none").self,
                    weights_in |-> 0]

LoadModel ==
    /\ loader.self.loads < MaxLoads
    /\ \E path_exists \in BOOLEAN, fault \in LoadFaults :
          LET found == path_exists /\ fault # "checkpoint_removed"
              r == load_model(loader.self, loader.has_torch, found, fault)
          IN  loader' = [called |-> TRUE, has_torch |-> loader.has_torch,
                         self |-> r.self, before |-> loader.self,
                         path_exists |-> found, fault |-> fault,
                         ret |-> r.ret, raised |-> r.raised,
                         weights_in |-> IF r.raised = "none" /\ r.ret = TRUE
                                        THEN r.self.model
                                        ELSE loader.weights_in]
    /\ UNCHANGED <<svc_vars, rng, codec_vars, synth_vars, pixel_vars>>

NextLoad == LoadModel

SpecLoad == InitLoad /\ [][NextLoad]_vars

(***************************************************************************)
(* Mask codec: claims C1 - C3, checked under SpecCodec.                    *)
(***************************************************************************)
\* The runs written out: each value repeated length times, in order.
RECURSIVE Expand(_)
Expand(runs) ==
    IF runs = <<>> THEN <<>>
    ELSE LET value  == Head(runs)[1]
             length == Head(runs)[2]
         IN  [i \in 1..(IF length > 0 THEN length ELSE 0) |-> value] \o Expand(Tail(runs))

\* A flat 0/1 sequence as a bool grid of the given shape, row-major.
Reshape(flat, shape) ==
    [r \in 1..shape[1] |-> [c \in 1..shape[2] |-> flat[(r - 1) * shape[2] + c] = 1]]

RECURSIVE SumLengths(_)
SumLengths(runs) ==
    IF runs = <<>> THEN 0 ELSE Head(runs)[2] + SumLengths(Tail(runs))

\* C1: expanding the runs mask_to_rle returns and reshaping them row-major to
\* (H, W) gives the mask back, for every mask, the zero-size ones included.
ThmC1_RoundTrip ==
    pc = "encoded" =>
        /\ Len(Expand(rle)) = mask.shape[1] * mask.shape[2]
        /\ Reshape(Expand(rle), mask.shape) = mask.data

WitC1_MixedMaskEncoded ==
    /\ pc = "encoded"
    /\ mask.shape = <<3, 3>>
    /\ Len(rle) >= 4
    /\ Reshape(Expand(rle), mask.shape) = mask.data

\* C2: mask_to_rle never returns two adjacent runs of the same value.
ThmC2_RunsAlternate ==
    pc = "encoded" =>
        \A i \in 1..(Len(rle) - 1) : rle[i][1] # rle[i + 1][1]

WitC2_ThreeAlternatingRuns ==
    /\ pc = "encoded"
    /\ Len(rle) = 3
    /\ rle[1][1] = 1 /\ rle[2][1] = 0 /\ rle[3][1] = 1

\* C3: every run has a value in {0, 1} and a length of at least 1, and the
\* lengths add up to H * W; no run at all when H * W = 0.
ThmC3_RunsPartitionMask ==
    pc = "encoded" =>
        /\ \A i \in 1..Len(rle) : rle[i][1] \in {0, 1} /\ rle[i][2] >= 1
        /\ SumLengths(rle) = mask.shape[1] * mask.shape[2]
        /\ (mask.shape[1] * mask.shape[2] = 0) => (rle = <<>>)

WitC3_RunsOfTwoByThree ==
    /\ pc = "encoded"
    /\ mask.shape = <<2, 3>>
    /\ Len(rle) = 2
    /\ SumLengths(rle) = 6

(***************************************************************************)
(* Endpoint layer and life cycle: claims C4 - C10, checked under Spec.     *)
(***************************************************************************)
\* The last request was a segment request, with / without a prompt.
SegmentWithPrompt ==
    req.op = "segment" /\ (Len(req.points) > 0 \/ Len(req.boxes) > 0)

SegmentWithoutPrompt ==
    req.op = "segment" /\ Len(req.points) = 0 /\ Len(req.boxes) = 0

\* Its slice is a (H, W) grid, H, W > 0, and its buffer holds H * W float32.
SliceWellFormed ==
    /\ Len(req.slice_shape) = 2
    /\ req.slice_shape[1] > 0 /\ req.slice_shape[2] > 0
    /\ req.slice_data.b64_ok
    /\ req.slice_data.nbytes = 4 * req.slice_shape[1] * req.slice_shape[2]

\* Its buffer is no base64, or does not hold the numbers slice_shape asks for.
SliceMalformed ==
    \/ ~req.slice_data.b64_ok
    \/ req.slice_data.nbytes % 4 # 0
    \/ req.slice_data.nbytes # 4 * Product(req.slice_shape)

Loaded == predictor # None /\ predictor.model_loaded

\* C4: a segment request with neither points nor boxes is answered 400, in
\* every predictor state, before anything is decoded, inferred or synthesized.
ThmC4_NoPromptRejectedFirst ==
    SegmentWithoutPrompt =>
        /\ resp.op = "segment"
        /\ resp.status = 400
        /\ resp.detail = "Must provide points or boxes"
        /\ resp.trace = <<>>

WitC4_RejectedWhileLoaded ==
    /\ phase = "serving"
    /\ Loaded
    /\ SegmentWithoutPrompt
    /\ SliceWellFormed
    /\ resp.status = 400

\* C5: a segment request with a prompt and a well-formed slice succeeds with
\* a response envelope, in demo mode as with a loaded model.
CexC5_PromptedRequestSucceeds ==
    (SegmentWithPrompt /\ SliceWellFormed) =>
        /\ resp.status = 200
        /\ resp.body.mask_shape = req.slice_shape
        /\ resp.body.confidence \in {DemoConfidence, ModelConfidence}

\* C6: a segment request with a prompt and a malformed slice is answered 400,
\* loaded or not.
CexC6_MalformedSliceIs400 ==
    (SegmentWithPrompt /\ SliceMalformed) => resp.status = 400

\* C7: health succeeds and says mode "production" exactly when the predictor
\* is loaded, "demo" otherwise.
CexC7_HealthModeTracksLoaded ==
    (phase = "serving" /\ resp.op = "health") =>
        /\ resp.status = 200
        /\ resp.body.model_loaded = Loaded
        /\ resp.body.mode = IF Loaded THEN "production" ELSE "demo"

\* C8: started with the checkpoint path unset or naming no file, the service
\* comes up, never gets a predictor, never loads, and health answers
\* {healthy, model_loaded false, demo} whatever requests came before.
ThmC8_NoCheckpointStaysDemo ==
    env.checkpoint \in {"unset", "missing"} =>
        /\ phase # "crashed"
        /\ load_ret = "not_called"
        /\ predictor = None
        /\ (phase = "serving" /\ resp.op = "health") =>
               resp.body = [status |-> "healthy", model_loaded |-> FALSE, mode |-> "demo"]

WitC8_HealthWithMissingCheckpoint ==
    /\ phase = "serving"
    /\ env.checkpoint = "missing"
    /\ env.has_predictor /\ env.has_torch
    /\ resp.op = "health"
    /\ resp.body.mode = "demo"

\* Startup built a predictor and its load did not succeed.
StartupLoadFailed ==
    /\ phase # "boot"
    /\ env.has_predictor
    /\ env.checkpoint = "exists"
    /\ load_ret # "True"

\* C9: when the startup load fails, no exception escapes startup, the
\* predictor ends not loaded, and every later segment request with a prompt
\* is served by the demo synthesizer with the demo confidence.
CexC9_FailedLoadServesDemo ==
    StartupLoadFailed =>
        /\ phase # "crashed"
        /\ phase = "serving" =>
               /\ predictor # None
               /\ ~predictor.model_loaded
               /\ (SegmentWithPrompt /\ SliceWellFormed) =>
                      /\ resp.path = "demo"
                      /\ resp.status = 200
                      /\ resp.body.confidence = DemoConfidence

\* C10: an inference that raises is answered 500 and leaves the predictor
\* loaded, however many have failed; later segment requests take the model
\* path.
ThmC10_FailedInferenceKeepsLoaded ==
    /\ (resp.op = "segment" /\ resp.failed = "predictor.segment_slice") =>
           /\ resp.status = 500
           /\ infer_failures > 0
    /\ (phase = "serving" /\ infer_failures > 0) =>
           /\ predictor # None
           /\ predictor.model_loaded
           /\ predictor.model # 0
           /\ SegmentWithPrompt => resp.path = "model"

WitC10_ServedAfterTwoFailures ==
    /\ phase = "serving"
    /\ infer_failures >= 2
    /\ SegmentWithPrompt
    /\ resp.path = "model"
    /\ resp.status = 200
    /\ resp.body.confidence = ModelConfidence

(***************************************************************************)
(* Mask synthesis: claim C11, checked under SpecDemo.                      *)
(***************************************************************************)
\* C11: a synthesizer called twice with the same slice shape and the same
\* prompts gives the same result both times, whatever calls of either
\* synthesizer reseeded the shared generator in between.
ThmC11_SameArgsSameMask ==
    (synth.last.made /\ synth.earlier.made /\ synth.last.args = synth.earlier.args)
        => synth.last.ret = synth.earlier.ret

WitC11_SameMaskAfterReseeding ==
    /\ synth.last.made
    /\ synth.earlier.made
    /\ synth.between
    /\ synth.last.args = synth.earlier.args
    /\ synth.last.ret.raised = "none"
    /\ synth.last.ret = synth.earlier.ret

(***************************************************************************)
(* The segment response: claims C12 - C14, checked under Spec.             *)
(***************************************************************************)
SegmentSucceeded == resp.op = "segment" /\ resp.status = 200

\* The mask of the response is the placeholder ellipse of one of the two
\* synthesizers.
DemoMask == resp.body.mask.synthesizer \in {"main", "predictor"}

\* C12: a segment response whose mask is the placeholder ellipse carries the
\* demo confidence and not the model confidence, whatever the predictor's
\* state, Loaded included.
CexC12_DemoMaskHasDemoConfidence ==
    (SegmentSucceeded /\ DemoMask) =>
        /\ resp.body.confidence = DemoConfidence
        /\ resp.body.confidence # ModelConfidence

\* C13: of the successful segment responses, those of the demo path report
\* a confidence strictly below the one the model path reports, and every
\* reported confidence lies in [0, 1] (0..100 hundredths).
ThmC13_ConfidenceOrdering ==
    SegmentSucceeded =>
        /\ resp.body.confidence \in 0..100
        /\ resp.path = "demo" => resp.body.confidence < ModelConfidence
        /\ resp.path = "model" => resp.body.confidence > DemoConfidence
        /\ resp.path \in {"demo", "model"}

WitC13_DemoBelowModel ==
    /\ SegmentSucceeded
    /\ resp.path = "demo"
    /\ predictor = None
    /\ resp.body.confidence < ModelConfidence

\* C14: a successful segment response has no contours field when contour
\* tracing is unavailable, and has one (a list, possibly empty) when it is
\* available.
CexC14_ContoursOmittedWithoutTracing ==
    SegmentSucceeded => (resp.body.contours.list <=> env.has_cv2)

(***************************************************************************)
(* The propagate stub: claim C15, checked under Spec.                      *)
(***************************************************************************)
\* C15: every propagate request, in every predictor state, is answered with
\* a result of status "not_implemented" that has a message and a hint;
\* nothing is raised and the predictor is left as it was.
ThmC15_PropagateStub ==
    [][(phase = "serving" /\ phase' = "serving" /\ req'.op = "propagate") =>
          /\ resp'.op = "propagate"
          /\ resp'.status = 200
          /\ resp'.failed = ""
          /\ {"status", "message", "hint"} \subseteq DOMAIN resp'.body
          /\ resp'.body.status = "not_implemented"
          /\ resp'.body.message # ""
          /\ resp'.body.hint # ""
          /\ predictor' = predictor]_vars

WitC15_StubAnsweredWhileLoaded ==
    /\ phase = "serving"
    /\ Loaded
    /\ req.op = "propagate"
    /\ req.initial_points = <<>>
    /\ resp.op = "propagate"
    /\ resp.body.status = "not_implemented"

(***************************************************************************)
(* Loading: claim C16, checked under Spec.                                 *)
(***************************************************************************)
\* C16: load_model is called at most once, by lifespan at process start;
\* until lifespan has got past it (load done, failed or skipped) no request
\* has been handled, and no handler calls it afterwards.
ThmC16_LoadOnceBeforeRequests ==
    /\ predictor # None => predictor.loads <= 1
    /\ phase = "boot" =>
           (req = NoReq /\ resp = NoResp /\ predictor = None /\ load_ret = "not_called")
    /\ req # NoReq => phase \in {"serving", "stopped"}
    /\ (phase = "serving" /\ predictor # None) =>
           predictor.loads = (IF load_ret = "not_called" THEN 0 ELSE 1)
    /\ (phase = "serving" /\ predictor = None) => load_ret = "not_called"

WitC16_ServedAfterOneFailedLoad ==
    /\ phase = "serving"
    /\ predictor # None
    /\ ~predictor.model_loaded
    /\ predictor.loads = 1
    /\ load_ret = "False"
    /\ SegmentSucceeded
    /\ resp.path = "demo"

(***************************************************************************)
(* The predictor under requests: claim C17, checked under Spec.            *)
(***************************************************************************)
\* C17: a request handled, be it health, segment, propagate or model-info,
\* answered or failed, leaves the predictor reference, its model and its
\* model_loaded flag as they were.
ThmC17_HandlersKeepPredictor ==
    [][(phase = "serving" /\ phase' = "serving") =>
          /\ predictor' = predictor
          /\ (predictor' = None) <=> (predictor = None)
          /\ predictor # None =>
                 /\ predictor'.model = predictor.model
                 /\ predictor'.model_loaded = predictor.model_loaded]_vars

WitC17_LoadedAfterRejectedSlice ==
    /\ phase = "serving"
    /\ Loaded
    /\ predictor.model # 0
    /\ resp.op = "segment"
    /\ resp.status = 500
    /\ resp.failed = "decode_slice"

(***************************************************************************)
(* Model info: claim C18, checked under Spec.                              *)
(***************************************************************************)
ModelInfoAnswered == phase = "serving" /\ resp.op = "model-info"

\* C18: the model-info result has total_params and trainable_params exactly
\* when the predictor is Loaded; with no predictor, or one whose load
\* failed, it has neither and its loaded is false.
ThmC18_ParamCountsIffLoaded ==
    ModelInfoAnswered =>
        /\ resp.status = 200
        /\ ("total_params" \in DOMAIN resp.body) <=> Loaded
        /\ ("trainable_params" \in DOMAIN resp.body) <=> Loaded
        /\ resp.body.loaded = Loaded

WitC18_NoCountsAfterFailedWeights ==
    /\ ModelInfoAnswered
    /\ load_fault = "load_state_dict"
    /\ predictor # None
    /\ predictor.model # 0
    /\ ~Loaded
    /\ "total_params" \notin DOMAIN resp.body
    /\ resp.body.loaded = FALSE

(***************************************************************************)
(* Weight keys: claim C19, checked under Spec.                             *)
(***************************************************************************)
\* What get_model_info reports besides the numbers of missing and unexpected
\* keys.
OtherInfoFields ==
    {"loaded", "device", "image_size", "has_torch", "has_cv2",
     "total_params", "trainable_params", "mode", "description"}

\* C19: a load whose checkpoint has missing and unexpected keys and meets no
\* other trouble ends with the predictor Loaded, and get_model_info reports
\* the numbers of missing and unexpected keys.
CexC19_KeyMismatchLoadedAndReported ==
    (ModelInfoAnswered /\ load_fault = "key_mismatch") =>
        /\ Loaded
        /\ DOMAIN resp.body \ OtherInfoFields # {}

(***************************************************************************)
(* The center of the ellipse: claim C20, checked under SpecDemo.           *)
(***************************************************************************)
\* The center in twentieths by the order: first point of label 1; else the
\* centroid of the first box; else the slice center.
CenterByOrder(a) ==
    LET fg == SelectSeq(a.points, LAMBDA pt : pt.label = 1)
    IN  IF fg # <<>>
        THEN [cx |-> 2 * fg[1].x, cy |-> 2 * fg[1].y]
        ELSE IF a.boxes # <<>>
        THEN [cx |-> a.boxes[1].x1 + a.boxes[1].x2, cy |-> a.boxes[1].y1 + a.boxes[1].y2]
        ELSE [cx |-> 10 * a.shape[2], cy |-> 10 * a.shape[1]]

\* C20: each synthesizer centers the ellipse on the first foreground point
\* if there is one; otherwise on the centroid of the first box if there is a
\* box, also when background points were given; otherwise on the slice
\* center (W/2, H/2).
CexC20_CenterSelectionOrder ==
    (synth.last.made /\ synth.last.ret.raised = "none") =>
        synth.last.ret.center = CenterByOrder(synth.last.args)

(***************************************************************************)
(* load_model: claims C21 and C30, checked under SpecLoad.                 *)
(***************************************************************************)
\* The calls the claim counts as failing: no PyTorch, no checkpoint file,
\* sam3 not importable, or a statement of the try block raising.
LoadTroubled ==
    \/ ~loader.has_torch
    \/ ~loader.path_exists
    \/ loader.fault \in {"torch_load", "sam3_import", "build_sam3", "load_state_dict",
                          "to_device"}

\* C21: model_loaded goes from false to true only in a load_model call that
\* returns True; a failing call returns False, leaves model_loaded as it
\* found it and raises nothing.
ThmC21_LoadTransitions ==
    loader.called =>
        /\ loader.raised = "none"
        /\ (~loader.before.model_loaded /\ loader.self.model_loaded) => loader.ret = TRUE
        /\ LoadTroubled => loader.ret = FALSE
        /\ loader.ret = FALSE => loader.self.model_loaded = loader.before.model_loaded

WitC21_FailedLoadAfterGoodOne ==
    /\ loader.called
    /\ loader.before.model_loaded
    /\ loader.fault = "torch_load"
    /\ loader.path_exists
    /\ loader.ret = FALSE
    /\ loader.raised = "none"
    /\ loader.self.model_loaded

\* C30: a load_model call that returns False leaves self.model as it found
\* it, so whenever model_loaded is true self.model is the object the last
\* call that returned True put its weights into.
CexC30_FailedLoadKeepsModel ==
    loader.called =>
        /\ (loader.raised = "none" /\ loader.ret = FALSE) =>
               loader.self.model = loader.before.model
        /\ loader.self.model_loaded => loader.self.model = loader.weights_in

(***************************************************************************)
(* Requests among other requests: claims C22, C28 and C29, checked under   *)
(* Spec.  A handler has no await in its body, so the event loop runs it to *)
(* its end before the next one starts: requests handled concurrently are   *)
(* handled one after the other in some order.                              *)
(***************************************************************************)
\* The response the request of this state gets when it is the only one the
\* process has handled.
ResponseAlone == segment_slice(predictor, req, env.has_cv2, FreshGenerator).resp

SameButSliceData ==
    { [req EXCEPT !.slice_data = s.slice_data] :
        s \in { t \in Slices : t.slice_shape = req.slice_shape } }

ThmC29_EndpointsAgreeOnLoaded ==
    phase = "serving" =>
        /\ resp.op = "health" => (resp.body.model_loaded <=> Loaded)
        /\ resp.op = "model-info" => (resp.body.loaded <=> Loaded)
        /\ (resp.op = "segment" /\ resp.status # 400) =>
               ((resp.path = "model") <=> Loaded)
        /\ health_check(predictor).body.model_loaded
               = model_info(predictor, env).body.loaded

WitC29_UnloadedPredictorServesDemo ==
    /\ phase = "serving"
    /\ predictor # None
    /\ ~predictor.model_loaded
    /\ resp.op = "segment"
    /\ resp.path = "demo"
    /\ ~health_check(predictor).body.model_loaded
    /\ ~model_info(predictor, env).body.loaded

(***************************************************************************)
(* Runs and spans: claim C24, checked under SpecCodec.                     *)
(***************************************************************************)
\* The pixels of the mask of this state row by row, as 0 and 1.
RowMajor ==
    [k \in 1..(mask.shape[1] * mask.shape[2]) |->
        IF mask.data[((k - 1) \div mask.shape[2]) + 1][((k - 1) % mask.shape[2]) + 1]
        THEN 1 ELSE 0]

\* The places where a maximal span of one value begins.
SpanStarts ==
    { k \in 1..Len(RowMajor) : k = 1 \/ RowMajor[k] # RowMajor[k - 1] }

Uniform == \A k \in 1..Len(RowMajor) : RowMajor[k] = RowMajor[1]

\* C24: mask_to_rle returns as many runs as the row-major flattening has
\* maximal spans of one value, the first run with the value of the first
\* pixel; a non-empty mask of one value gives the one run [v, H * W] and a
\* zero-size mask gives no run.
ThmC24_OneRunPerSpan ==
    pc = "encoded" =>
        /\ Len(rle) = Cardinality(SpanStarts)
        /\ Len(RowMajor) > 0 => rle[1][1] = RowMajor[1]
        /\ (Len(RowMajor) > 0 /\ Uniform) =>
               rle = << <<RowMajor[1], mask.shape[1] * mask.shape[2]>> >>
        /\ Len(RowMajor) = 0 => rle = <<>>

WitC24_FourSpansFourRuns ==
    /\ pc = "encoded"
    /\ mask.shape = <<2, 2>>
    /\ RowMajor = <<1, 0, 1, 0>>
    /\ Len(rle) = 4
    /\ Cardinality(SpanStarts) = 4

(***************************************************************************)
(* The ellipse pixel by pixel: claims C23, C26 and C27, checked under      *)
(* SpecPixel.                                                              *)
(***************************************************************************)
\* What C23 says of one pixel: q its distance, m whether it is in the mask,
\* (lo, hi) the band in hundredths and scale the factor of the noise.
BandRule(q, m, u, lo, hi, scale) ==
    /\ (dist_le(q, lo) \/ dist_ge(q, hi)) => (m <=> dist_le(q, 100))
    /\ (dist_gt(q, lo) /\ dist_lt(q, hi)) => (m <=> noisy_le(q, u, scale))
    /\ dist_le(q, lo) => m
    /\ dist_ge(q, hi) => ~m

\* C23: a pixel outside the band (0.7, 1.3) of main.py, (0.75, 1.25) of
\* predictor.py, is in the mask exactly when d <= 1.0 and a pixel inside it
\* exactly when d + noise <= 1.1; so a pixel at or below the band is always
\* in the mask and one at or above it never, whatever number was drawn.
ThmC23_PerturbationConfinedToBand ==
    px.stage = "decided" =>
        /\ px.main.accepted =>
               BandRule(px.main.dist, px.main.in_mask, px.u, 70, 130, 30)
        /\ px.predictor.accepted =>
               BandRule(px.predictor.dist, px.predictor.in_mask, px.u, 75, 125, 25)

\* A pixel of the band that lies outside the base ellipse and is in the mask.
WitC23_NoiseDecidesInsideBand ==
    /\ px.stage = "decided"
    /\ px.main.accepted
    /\ dist_gt(px.main.dist, 100)
    /\ dist_lt(px.main.dist, 130)
    /\ px.main.in_mask
    /\ px.predictor.in_mask

\* C26: for every shape the radii are min(H, W) / 6 and min(H, W) / 7
\* exactly, so neither is zero and the distance of every pixel is a number.
CexC26_RadiiExactAndNonZero ==
    px.stage = "decided" =>
        \A s \in {px.main, px.predictor} :
            /\ 6 * s.radii.rx = Min(px.shape[1], px.shape[2])
            /\ 7 * s.radii.ry = Min(px.shape[1], px.shape[2])
            /\ s.radii.rx # 0
            /\ s.radii.ry # 0
            /\ s.dist.kind = "finite"

ResponseMaskHas(x, y, u) ==
    main_pixel(ellipse_dist(resp.body.mask.center,
                            radii(resp.body.mask.shape[1], resp.body.mask.shape[2]),
                            x, y), u)

====
